---- MODULE Spec2Model ----
(***************************************************************************)
(* organize-pdf (src/organize.py): the batch coordinator (__main__), the   *)
(* pool of file tasks (organize_file), the label extractor                  *)
(* (get_real_page_num), the page table (an OrderedDict) and the line        *)
(* addressed Logger.                                                        *)
(*                                                                          *)
(* A page text is a sequence of one-character strings.  A label is the same.*)
(* The names of a batch's files are numbers, ordered as the names are; a   *)
(* task is known by its place in the iterable handed to p.map.             *)
(***************************************************************************)
EXTENDS Integers, Sequences, FiniteSets, TLC

\* ------------------------------------------------------------------ bounds

\* Most eligible files in a batch.
MaxFiles == 2

\* Most pages of a source document explored in a one-file batch.
MaxPages == 4

\* ------------------------------------------------------- program constants

\* Number of glyphs itertools.cycle walks through (organize.py:74).
SpinnerLen == 10

\* ------------------------------------------------------------ str methods

\* str.split(sep): always at least one part.
RECURSIVE Split(_, _)
Split(s, sep) ==
    IF s = <<>> THEN << <<>> >>
    ELSE LET rest == Split(Tail(s), sep)
         IN  IF Head(s) = sep
             THEN << <<>> >> \o rest
             ELSE << <<Head(s)>> \o Head(rest) >> \o Tail(rest)

\* str.splitlines(): like split("\n"), but a final line break opens no
\* further line, and the empty string has no lines at all.
SplitLines(s) ==
    LET parts == Split(s, "\n")
    IN  IF parts[Len(parts)] = <<>> THEN SubSeq(parts, 1, Len(parts) - 1)
        ELSE parts

\* ------------------------------------------------------- get_real_page_num

\* text.splitlines()[-1].split("/")[0]; [-1] of an empty list raises
\* IndexError.  The result is [ok, val]: ok = FALSE stands for the raise.
get_real_page_num(text) ==
    LET lines == SplitLines(text)
    IN  IF lines = <<>> THEN [ok |-> FALSE, val |-> <<>>]
        ELSE [ok |-> TRUE, val |-> Split(lines[Len(lines)], "/")[1]]

\* ------------------------------------------------------------ OrderedDict

\* An OrderedDict is the sequence of its <<key, value>> items in iteration
\* order.
DictValues(d) == [p \in 1..Len(d) |-> d[p][2]]

DictHas(d, k) == \E p \in 1..Len(d) : d[p][1] = k

\* d[k] = v moves an existing key to the end (as move_to_end would).
DictSetMoveToEnd(d, k, v) ==
    LET kept == SelectSeq(d, LAMBDA it : it[1] # k)
    IN  Append(kept, <<k, v>>)

\* d[k] = v keeps the value of an existing key (as setdefault would).
DictSetKeepFirst(d, k, v) ==
    IF DictHas(d, k) THEN d ELSE Append(d, <<k, v>>)

\* d[k] = v always appends (as a list of items would).
DictSetAppend(d, k, v) == Append(d, <<k, v>>)

\* The number a label of digits prints (0 for the empty label).
RECURSIVE LabelNum(_)
LabelNum(l) ==
    IF l = <<>> THEN 0
    ELSE 10 * LabelNum(SubSeq(l, 1, Len(l) - 1))
         + (CASE l[Len(l)] = "1" -> 1 [] l[Len(l)] = "2" -> 2 [] l[Len(l)] = "3" -> 3 [] OTHER -> 0)

\* d[k] = v keeps the keys in ascending numeric order.
DictSetSorted(d, k, v) ==
    IF DictHas(d, k)
    THEN [p \in 1..Len(d) |-> IF d[p][1] = k THEN <<k, v>> ELSE d[p]]
    ELSE LET below == SelectSeq(d, LAMBDA it : LabelNum(it[1]) < LabelNum(k))
             above == SelectSeq(d, LAMBDA it : LabelNum(it[1]) > LabelNum(k))
         IN  below \o << <<k, v>> >> \o above

\* d[k] = v puts a new key in front of the others.
DictSetPrepend(d, k, v) ==
    IF DictHas(d, k)
    THEN [p \in 1..Len(d) |-> IF d[p][1] = k THEN <<k, v>> ELSE d[p]]
    ELSE << <<k, v>> >> \o d

\* d[k] = v: an existing key keeps its place and gets the new value, a new
\* key goes to the end.
DictSet(d, k, v) ==
    IF DictHas(d, k)
    THEN [p \in 1..Len(d) |-> IF d[p][1] = k THEN <<k, v>> ELSE d[p]]
    ELSE Append(d, <<k, v>>)

\* pages after the loop over the first n pages, whose labels are labels:
\* pages = OrderedDict(); for i in range(n): pages[label of page i] = i
RECURSIVE PageTable(_, _)
PageTable(labels, n) ==
    IF n = 0 THEN <<>> ELSE DictSet(PageTable(labels, n - 1), labels[n], n - 1)

\* The reorder step: the page indexes the writer is given for a document
\* whose pages carry these labels.
Reorder(labels) == DictValues(PageTable(labels, Len(labels)))

\* ------------------------------------------------------------ environment

\* Page texts a source page can carry.
NoText == <<>>
Text1of2 == <<"1", "/", "2">>
Text2of2 == <<"2", "/", "2">>
TextBare2 == <<"2">>
TextHead3of3 == <<"1", "\n", "3", "/", "3">>
Text1of2Newline == <<"1", "/", "2", "\n">>

Texts == {NoText, Text1of2, Text2of2, TextBare2, TextHead3of3, Text1of2Newline}

\* Documents of at most n pages.
Docs(n) == UNION {[1..k -> Texts] : k \in 0..n}

\* A source file: whether open()/PdfFileReader succeed on it, and its pages'
\* texts.  An unreadable source has no pages to speak of.
Unreadable == [readable |-> FALSE, doc |-> <<>>]

Sources(docs) == {Unreadable} \cup {[readable |-> TRUE, doc |-> d] : d \in docs}

\* Documents explored where the order of the files and the pool are at stake.
PoolDocs == {<<Text1of2>>, <<Text1of2, NoText>>}

\* Documents explored when several files run side by side.
BatchDocs == {<<>>, <<NoText>>, <<Text1of2>>, <<Text1of2, NoText>>}

\* ---------------------------------------------------------------- messages

Blank == [kind |-> "blank", file |-> -1, glyph |-> -1, a |-> 0, b |-> 0, pct |-> 0]

\* The spinner line with the counter counting from 0.
SpinnerMsgFromZero(file, frame, cur, total) ==
    [kind |-> "spinner", file |-> file, glyph |-> frame, a |-> cur - 1, b |-> total, pct |-> 0]

\* f"{next(spinner)} {file_name}: {i + 1}/{num_pages}"
SpinnerMsg(file, frame, cur, total) ==
    [kind |-> "spinner", file |-> file, glyph |-> frame, a |-> cur, b |-> total, pct |-> 0]

\* a / b to the nearest integer, a >= 0, b > 0.
RoundDiv(a, b) == (2 * a + b) \div (2 * b)

\* f"{(num_pages - new_num_pages) / num_pages * 100:.2f}" in hundredths of a
\* percent; num_pages > 0 (the caller raises ZeroDivisionError otherwise).
Percent(n, new) == RoundDiv((n - new) * 10000, n)

\* f"✓ {file_name}: {num_pages} -> {new_num_pages} pages (...%)"
CompletionMsg(file, n, new) ==
    [kind |-> "done", file |-> file, glyph |-> SpinnerLen, a |-> n, b |-> new,
     pct |-> Percent(n, new)]

\* ------------------------------------------------------------------ Logger

\* The terminal: the rows of the reserved block, counted from its top, the
\* cursor's row (any integer: rows above and below the block exist, but are
\* not kept), whether the cursor is hidden, and whether anything was cleared
\* or printed on a row outside the block.
\* Logger.__init__: num times "clear to end of line, line feed", then hide.
LoggerInit(t, num) ==
    [rows |-> [r \in DOMAIN t.rows |-> IF r >= t.cur /\ r < t.cur + num THEN Blank ELSE t.rows[r]],
     cur |-> t.cur + num,
     hidden |-> TRUE,
     stray |-> t.stray]

\* What one print sends to the terminal.
CursorUp(n) == [op |-> "up", n |-> n, msg |-> Blank]

ClearLine == [op |-> "clear", n |-> 0, msg |-> Blank]

Text(msg) == [op |-> "text", n |-> 0, msg |-> msg]

CursorDown(n) == [op |-> "down", n |-> n, msg |-> Blank]

\* The terminal obeys one piece of output: ESC[nF and ESC[nE move the cursor
\* to the start of the row n rows up or down, ESC[2K blanks the cursor's
\* row, text prints on the cursor's row.
TermApply(t, o) ==
    CASE o.op = "up" -> [t EXCEPT !.cur = t.cur - o.n]
      [] o.op = "down" -> [t EXCEPT !.cur = t.cur + o.n]
      [] OTHER ->
           IF t.cur \in DOMAIN t.rows
           THEN [t EXCEPT !.rows[t.cur] = o.msg]
           ELSE [t EXCEPT !.stray = TRUE]

\* The terminal obeys one write: its pieces in order, nothing in between.
RECURSIVE TermWrite(_, _)
TermWrite(t, ops) ==
    IF ops = <<>> THEN t ELSE TermWrite(TermApply(t, Head(ops)), Tail(ops))

\* log() moving up and down one row less than num - line.
LoggerLogOneLess(num, line, msg) ==
    LET up == num - line - 1
    IN  <<CursorUp(up), ClearLine, Text(msg), CursorDown(up)>>

\* log() moving up and down one row more than num - line.
LoggerLogOneMore(num, line, msg) ==
    LET up == num - line + 1
    IN  <<CursorUp(up), ClearLine, Text(msg), CursorDown(up)>>

\* Logger.log: the output of its four prints: up num - line rows to the
\* start of the row, clear the row, msg, down the same number of rows.
LoggerLog(num, line, msg) ==
    LET up == num - line
    IN  <<CursorUp(up), ClearLine, Text(msg), CursorDown(up)>>

\* Every print flushes.
PrintFlushesAlways(k, last) == TRUE

\* Whether the k-th of a log call's prints flushes the process's buffered
\* sys.stdout: only the last one is given flush=True, and no output of a
\* log call holds a line break.  What a flush writes reaches the terminal
\* as one write.
PrintFlushes(k, last) == k = last

\* --------------------------------------------------------------- MapResult

NoExc == [file |-> -1, exc |-> "none"]

\* MapResult(..., length): one chunk per task (chunksize 1: divmod(n, 4n)).
MapResultNew(n) == [number_left |-> n, success |-> TRUE, value |-> NoExc]

\* MapResult._set: one chunk's result arrives; only the first exception is
\* stored.
MapResultSet(mr, ok, e) ==
    [number_left |-> mr.number_left - 1,
     success |-> mr.success /\ ok,
     value |-> IF ~ok /\ mr.success THEN e ELSE mr.value]

\* The result is ready on the first failure.
MapResultReadyFailFast(mr) == mr.number_left = 0 \/ ~mr.success

\* The result is ready (its event is set) once every chunk has reported.
MapResultReady(mr) == mr.number_left = 0

\* -------------------------------------------------------------- task list

\* sorted(): names are numbers, ordered as the file names are.
SortedInsert(q, x) ==
    SelectSeq(q, LAMBDA y : y < x) \o <<x>> \o SelectSeq(q, LAMBDA y : y >= x)

RECURSIVE sorted(_)
sorted(q) == IF q = <<>> THEN <<>> ELSE SortedInsert(sorted(Tail(q)), Head(q))

\* enumerate(): each item with its position, from 0.
enumerate(q) == [k \in 1..Len(q) |-> [line |-> k - 1, file_name |-> q[k]]]

\* The tasks in the order of os.listdir.
TaskArgsUnsorted(files) == enumerate(files)

\* [(i, f, ...) for i, f in enumerate(sorted(files))]
TaskArgs(files) == enumerate(sorted(files))

\* A pool of one process.
PoolSizeOne(n) == 1

\* Pool(files_num, ...): the number of worker processes.
PoolSize(n) == n

\* The orders os.listdir can give n files, named 1..n.
Listings(n) == {q \in [1..n -> 1..n] : \A j, k \in 1..n : q[j] = q[k] => j = k}

\* os.listdir gives the n files in descending order of their names.
ListingDescending(n) == {[k \in 1..n |-> n + 1 - k]}

\* ------------------------------------------------------------------- state

VARIABLES
    files_num,    \* len(files)
    listing,      \* files: the names in os.listdir's order
    src,          \* task -> the source file in args.directory
    dst_writable, \* task -> whether the output file can be written
    mainPc,       \* "start", "pool", "map", "done", "raised", "interrupted", "killed"
    finalized,    \* the coordinator's interpreter has finalized
    pool_alive,   \* the pool's workers run (from Pool() to terminate())
    mapres,       \* the MapResult of p.map
    stderr,       \* the failures the coordinator's traceback reports
    term,         \* the terminal
    args,         \* task -> the (line, file_name) of its args
    worker,       \* task -> the pool worker that took it, -1 while queued
    pc,           \* task -> place of its organize_file call
    num_pages,    \* task -> pdf.getNumPages()
    i,            \* task -> pages whose label has been stored
    pages,        \* task -> the OrderedDict label -> page index
    writer,       \* task -> the page indexes added to the PdfFileWriter
    outfile,      \* task -> the file in args.output
    exc,          \* task -> the exception it raised, or "none"
    lp,           \* task -> the next print of its log call (1 between calls)
    logged        \* task -> the messages of its completed log calls

envVars == <<files_num, listing, src, dst_writable>>

mainVars == <<mainPc, finalized, pool_alive, stderr, args>>

vars == <<envVars, mainVars, mapres, term, worker, pc, num_pages, i, pages, writer,
          outfile, exc, lp, logged>>

\* The tasks of p.map, by their place in its iterable.
Files == 0..(files_num - 1)

Absent == [st |-> "absent", pages |-> <<>>]

\* A file left in args.output by an earlier run.
Existing == [st |-> "old", pages |-> <<>>]

NoArgs == [line |-> -1, file_name |-> -1]

\* The task of source s gets as far as writing its output.
ReachesWrite(s) ==
    s.readable /\ \A p \in 1..Len(s.doc) : get_real_page_num(s.doc[p]).ok

\* The output of s can be written or not.
AnyWritable(s) == BOOLEAN

\* The output of s can be written or not, where its task gets as far as
\* writing it (a task that fails before never touches its output).
AnyWritableIfWritten(s) == IF ReachesWrite(s) THEN BOOLEAN ELSE {TRUE}

\* The output of s can be written.
OnlyWritable(s) == {TRUE}

\* The state before __main__ runs, over the given sources and output files;
\* listings[n] are the orders of n names, writables[s] says whether the output
\* of source s can be written.
InitOver(nums, listings, sources, writables, outs) ==
    /\ files_num \in nums
    /\ listing \in listings[files_num]
    /\ src \in [0..(files_num - 1) -> sources]
    /\ dst_writable \in [0..(files_num - 1) -> BOOLEAN]
    /\ \A f \in 0..(files_num - 1) : dst_writable[f] \in writables[src[f]]
    /\ mainPc = "start"
    /\ finalized = FALSE
    /\ pool_alive = FALSE
    /\ mapres = MapResultNew(0)
    /\ stderr = {}
    /\ term = [rows |-> [r \in 0..(files_num - 1) |-> Blank], cur |-> 0,
               hidden |-> FALSE, stray |-> FALSE]
    /\ args = [f \in 0..(files_num - 1) |-> NoArgs]
    /\ worker = [f \in 0..(files_num - 1) |-> -1]
    /\ pc = [f \in 0..(files_num - 1) |-> "queued"]
    /\ num_pages = [f \in 0..(files_num - 1) |-> 0]
    /\ i = [f \in 0..(files_num - 1) |-> 0]
    /\ pages = [f \in 0..(files_num - 1) |-> <<>>]
    /\ writer = [f \in 0..(files_num - 1) |-> <<>>]
    /\ outfile \in [0..(files_num - 1) -> outs]
    /\ exc = [f \in 0..(files_num - 1) |-> "none"]
    /\ lp = [f \in 0..(files_num - 1) |-> 1]
    /\ logged = [f \in 0..(files_num - 1) |-> <<>>]

\* A batch of up to MaxFiles files.
Init ==
    InitOver(0..MaxFiles, [n \in 0..MaxFiles |-> ListingDescending(n)], Sources(BatchDocs),
             [s \in Sources(BatchDocs) |-> AnyWritableIfWritten(s)], {Absent})

\* A batch of one file, of up to MaxPages pages.
InitFile ==
    InitOver({1}, [n \in {1} |-> Listings(n)], Sources(Docs(MaxPages)),
             [s \in Sources(Docs(MaxPages)) |-> AnyWritable(s)], {Absent, Existing})

\* A batch of up to MaxFiles files in any order, all writable.
InitPool ==
    InitOver(0..MaxFiles, [n \in 0..MaxFiles |-> Listings(n)], Sources(PoolDocs),
             [s \in Sources(PoolDocs) |-> OnlyWritable(s)], {Absent})

\* -------------------------------------------------------------- __main__

\* logger = Logger(files_num)
Main_Logger ==
    /\ mainPc = "start"
    /\ term' = LoggerInit(term, files_num)
    /\ mainPc' = "pool"
    /\ UNCHANGED <<envVars, finalized, pool_alive, stderr, args, mapres, worker, pc,
                   num_pages, i, pages, writer, outfile, exc, lp, logged>>

\* Pool(files_num, ...) and the dispatch of p.map: Pool raises ValueError
\* ("Number of processes must be at least 1") for fewer than one process;
\* nothing catches it.  Otherwise every task is queued.
Main_Pool ==
    /\ mainPc = "pool"
    /\ IF PoolSize(files_num) < 1
       THEN /\ mainPc' = "raised"
            /\ stderr' = {[file |-> -1, exc |-> "ValueError"]}
            /\ UNCHANGED <<pool_alive, mapres, args>>
       ELSE /\ mainPc' = "map"
            /\ pool_alive' = TRUE
            /\ mapres' = MapResultNew(files_num)
            /\ args' = [f \in Files |-> TaskArgs(listing)[f + 1]]
            /\ UNCHANGED stderr
    /\ UNCHANGED <<envVars, finalized, term, worker, pc, num_pages, i, pages, writer,
                   outfile, exc, lp, logged>>

\* p.map returns, or re-raises the stored exception, once the result is
\* ready; leaving the with block terminates the pool.  An exception leaves
\* __main__ uncaught and the interpreter prints its traceback.
Main_MapReturn ==
    /\ mainPc = "map"
    /\ MapResultReady(mapres)
    /\ pool_alive' = FALSE
    /\ IF mapres.success
       THEN /\ mainPc' = "done"
            /\ UNCHANGED stderr
       ELSE /\ mainPc' = "raised"
            /\ stderr' = {mapres.value}
    /\ UNCHANGED <<envVars, finalized, args, mapres, term, worker, pc, num_pages, i,
                   pages, writer, outfile, exc, lp, logged>>

\* Logger.__del__: print "show cursor".
LoggerDel(t) == [t EXCEPT !.hidden = FALSE]

\* __main__ is over (at its end, or by an uncaught exception, KeyboardInterrupt
\* included): the interpreter finalizes, which drops the module's globals, and
\* logger's __del__ runs.
Main_Finalize ==
    /\ mainPc \in {"done", "raised", "interrupted"}
    /\ ~finalized
    /\ finalized' = TRUE
    /\ term' = LoggerDel(term)
    /\ UNCHANGED <<envVars, mainPc, pool_alive, stderr, args, mapres, worker, pc,
                   num_pages, i, pages, writer, outfile, exc, lp, logged>>

\* Ctrl-C while the batch runs: SIGINT goes to the coordinator and to the
\* workers.  The workers die of it; in the coordinator KeyboardInterrupt
\* leaves the with block (which terminates the pool) and __main__.
Main_Interrupt ==
    /\ mainPc \in {"pool", "map"}
    /\ mainPc' = "interrupted"
    /\ pool_alive' = FALSE
    /\ stderr' = {[file |-> -1, exc |-> "KeyboardInterrupt"]}
    /\ UNCHANGED <<envVars, finalized, args, mapres, term, worker, pc, num_pages, i,
                   pages, writer, outfile, exc, lp, logged>>

\* SIGTERM to the job while the batch runs: the coordinator and the workers
\* end there and then; no Python code runs any more.
Main_Kill ==
    /\ mainPc \in {"pool", "map"}
    /\ mainPc' = "killed"
    /\ pool_alive' = FALSE
    /\ UNCHANGED <<envVars, finalized, stderr, args, mapres, term, worker, pc,
                   num_pages, i, pages, writer, outfile, exc, lp, logged>>

\* ---------------------------------------------------------- organize_file

\* The pool's worker processes.
Workers == 0..(PoolSize(files_num) - 1)

\* Worker w has taken a task.
Used(w) == \E f \in Files : worker[f] = w

\* Worker w runs a task.
Busy(w) == \E f \in Files : worker[f] = w /\ pc[f] \notin {"queued", "returned", "raised"}

\* The workers that may take the next task from the queue: any idle one.
\* Those that have not taken a task yet are alike: the first stands for all.
Takers == {w \in Workers : ~Busy(w) /\ (Used(w) \/ \A v \in Workers : v < w => Used(v))}

\* The task of file f raises e: the worker catches it and sends (False, e)
\* back as the task's result.
Raise(f, e) ==
    /\ pc' = [pc EXCEPT ![f] = "raised"]
    /\ exc' = [exc EXCEPT ![f] = e]
    /\ mapres' = MapResultSet(mapres, FALSE, [file |-> f, exc |-> e])

\* The first of the prints k.. of a log call that flushes.
FlushAt(k, last) ==
    CHOOSE j \in k..last : PrintFlushes(j, last) /\ \A h \in k..(j - 1) : ~PrintFlushes(h, last)

\* The task of f goes on with logger.log(line, msg): its prints from lp[f] up
\* to the first that flushes, whose write the terminal obeys.  The call is
\* over with its last print.
LogCall(f, msg) ==
    LET ops == LoggerLog(files_num, args[f].line, msg)
        stop == FlushAt(lp[f], Len(ops))
    IN  /\ term' = TermWrite(term, SubSeq(ops, lp[f], stop))
        /\ lp' = [lp EXCEPT ![f] = IF stop = Len(ops) THEN 1 ELSE stop + 1]
        /\ logged' = [logged EXCEPT ![f] = IF stop = Len(ops) THEN Append(@, msg) ELSE @]

\* The step LogCall takes ends the log call.
LogCallEnds(f) == lp'[f] = 1

\* The task of file f opens (creates or truncates) its output file as it
\* opens its source.
OpenCreatesOutput(f) ==
    /\ pool_alive
    /\ pc[f] = "queued"
    /\ \E w \in Takers : worker' = [worker EXCEPT ![f] = w]
    /\ outfile' = [outfile EXCEPT ![f] = [st |-> "partial", pages |-> <<>>]]
    /\ IF ~src[f].readable
       THEN /\ Raise(f, "OpenError")
            /\ UNCHANGED <<num_pages, pages>>
       ELSE /\ num_pages' = [num_pages EXCEPT ![f] = Len(src[f].doc)]
            /\ pages' = [pages EXCEPT ![f] = <<>>]
            /\ pc' = [pc EXCEPT ![f] = IF Len(src[f].doc) > 0 THEN "log" ELSE "write"]
            /\ UNCHANGED <<exc, mapres>>
    /\ UNCHANGED <<envVars, mainVars, term, i, writer, lp, logged>>

\* A pool worker takes the task of file f: open(file_path, "rb"),
\* PdfFileReader(f), PdfFileWriter(), getNumPages(), OrderedDict().
Open(f) ==
    /\ pool_alive
    /\ pc[f] = "queued"
    /\ \E w \in Takers : worker' = [worker EXCEPT ![f] = w]
    /\ IF ~src[f].readable
       THEN /\ Raise(f, "OpenError")
            /\ UNCHANGED <<num_pages, pages>>
       ELSE /\ num_pages' = [num_pages EXCEPT ![f] = Len(src[f].doc)]
            /\ pages' = [pages EXCEPT ![f] = <<>>]
            /\ pc' = [pc EXCEPT ![f] = IF Len(src[f].doc) > 0 THEN "log" ELSE "write"]
            /\ UNCHANGED <<exc, mapres>>
    /\ UNCHANGED <<envVars, mainVars, term, i, writer, outfile, lp, logged>>

\* logger.log(line, f"{next(spinner)} {file_name}: {i + 1}/{num_pages}")
LogSpinner(f) ==
    /\ pool_alive
    /\ pc[f] = "log"
    /\ LogCall(f, SpinnerMsg(args[f].file_name, i[f] % SpinnerLen, i[f] + 1, num_pages[f]))
    /\ pc' = [pc EXCEPT ![f] = IF LogCallEnds(f) THEN "extract" ELSE @]
    /\ UNCHANGED <<envVars, mainVars, mapres, worker, num_pages, i, pages, writer,
                   outfile, exc>>

\* page_num = get_real_page_num(pdf, i); pages[page_num] = i
Extract(f) ==
    /\ pool_alive
    /\ pc[f] = "extract"
    /\ LET page_num == get_real_page_num(src[f].doc[i[f] + 1])
       IN  IF ~page_num.ok
           THEN /\ Raise(f, "IndexError")
                /\ UNCHANGED <<i, pages>>
           ELSE /\ pages' = [pages EXCEPT ![f] = DictSet(pages[f], page_num.val, i[f])]
                /\ i' = [i EXCEPT ![f] = i[f] + 1]
                /\ pc' = [pc EXCEPT ![f] = IF i[f] + 1 < num_pages[f] THEN "log" ELSE "write"]
                /\ UNCHANGED <<exc, mapres>>
    /\ UNCHANGED <<envVars, mainVars, term, worker, num_pages, writer, outfile, lp, logged>>

\* for page_num, i in pages.items(): writer.addPage(pdf.getPage(i)); then
\* open(output_file_name, "wb") and writer.write(f).  A failing open leaves
\* the output path as it was, a failing write leaves a partial file.
WriteOutput(f) ==
    /\ pool_alive
    /\ pc[f] = "write"
    /\ writer' = [writer EXCEPT ![f] = DictValues(pages[f])]
    /\ IF dst_writable[f]
       THEN /\ outfile' = [outfile EXCEPT ![f] = [st |-> "written", pages |-> DictValues(pages[f])]]
            /\ pc' = [pc EXCEPT ![f] = "final"]
            /\ UNCHANGED <<exc, mapres>>
       ELSE /\ \/ UNCHANGED outfile
               \/ outfile' = [outfile EXCEPT ![f] = [st |-> "partial", pages |-> <<>>]]
            /\ Raise(f, "WriteError")
    /\ UNCHANGED <<envVars, mainVars, term, worker, num_pages, i, pages, lp, logged>>

\* new_num_pages = writer.getNumPages(); the completion line is formatted
\* (dividing by num_pages) and logged; the task returns None.
Finish(f) ==
    /\ pool_alive
    /\ pc[f] = "final"
    /\ LET new_num_pages == Len(writer[f])
       IN  IF num_pages[f] = 0
           THEN /\ Raise(f, "ZeroDivisionError")
                /\ UNCHANGED <<term, lp, logged>>
           ELSE /\ LogCall(f, CompletionMsg(args[f].file_name, num_pages[f], new_num_pages))
                /\ pc' = [pc EXCEPT ![f] = IF LogCallEnds(f) THEN "returned" ELSE @]
                /\ mapres' = IF LogCallEnds(f) THEN MapResultSet(mapres, TRUE, NoExc) ELSE mapres
                /\ UNCHANGED exc
    /\ UNCHANGED <<envVars, mainVars, worker, num_pages, i, pages, writer, outfile>>

\* ------------------------------------------------------------------- specs

Next ==
    \/ Main_Logger
    \/ Main_Pool
    \/ Main_MapReturn
    \/ Main_Finalize
    \/ \E f \in Files : Open(f)
    \/ \E f \in Files : LogSpinner(f)
    \/ \E f \in Files : Extract(f)
    \/ \E f \in Files : WriteOutput(f)
    \/ \E f \in Files : Finish(f)

\* The batch, with the signals that can end it.
NextSignal ==
    \/ Next
    \/ Main_Interrupt
    \/ Main_Kill

\* Batches of up to MaxFiles files.
Spec == Init /\ [][Next]_vars

\* One file of up to MaxPages pages.
SpecFile == InitFile /\ [][Next]_vars

\* Batches of up to MaxFiles files, listed in any order.
SpecPool == InitPool /\ [][Next]_vars

\* Batches of up to MaxFiles files that a signal may end.
SpecSignal == InitPool /\ [][NextSignal]_vars

\* ------------------------------------------------------------ properties

\* The labels of the pages of file f's source, in page order.
Labels(f) == [p \in 1..Len(src[f].doc) |-> get_real_page_num(src[f].doc[p]).val]

Range(q) == {q[p] : p \in 1..Len(q)}

FirstOcc(ls, l) == CHOOSE p \in 1..Len(ls) : ls[p] = l /\ \A q \in 1..(p - 1) : ls[q] # l

LastOcc(ls, l) == CHOOSE p \in 1..Len(ls) : ls[p] = l /\ \A q \in (p + 1)..Len(ls) : ls[q] # l

\* The output file of f has been written in full.
Written(f) == outfile[f].st = "written"

\* The task of f has ended, by returning or by raising.
TaskEnded(f) == pc[f] \in {"returned", "raised"}

\* __main__ has ended, by falling off its end or by an uncaught exception.
MainEnded == mainPc \in {"done", "raised"}

\* C1: for each label of the source, the output holds the page of the
\* label's last occurrence, at the place (among the output pages) of the
\* label's first occurrence.
C1_LastPageAtFirstPlace ==
    \A f \in Files : Written(f) =>
        LET ls == Labels(f)
            out == outfile[f].pages
        IN  \A l \in Range(ls) :
                LET place == Cardinality({FirstOcc(ls, m) : m \in Range(ls)}
                                         \cap (1..FirstOcc(ls, l)))
                IN  /\ place <= Len(out)
                    /\ out[place] = LastOcc(ls, l) - 1

\* An output written from a source where a label comes back after another
\* label came in between.
C1_Witness ==
    \E f \in Files :
        /\ Written(f)
        /\ \E p, q, r \in 1..Len(Labels(f)) :
              /\ p < q /\ q < r
              /\ Labels(f)[p] = Labels(f)[r]
              /\ Labels(f)[q] # Labels(f)[p]

\* C2: the output has as many pages as the source has distinct labels, and
\* so never more pages than the source.
C2_OutputLength ==
    \A f \in Files : Written(f) =>
        /\ Len(outfile[f].pages) = Cardinality(Range(Labels(f)))
        /\ Len(outfile[f].pages) <= Len(src[f].doc)

\* An output of several pages, shorter than its source.
C2_Witness ==
    \E f \in Files :
        /\ Written(f)
        /\ Len(outfile[f].pages) >= 2
        /\ Len(outfile[f].pages) < Len(src[f].doc)

\* The label of the k-th output page of f.
OutLabel(f, k) == Labels(f)[outfile[f].pages[k] + 1]

\* C3 as claimed: the output pages are in ascending order of their printed
\* page number.
C3_AscendingLabels ==
    \A f \in Files : Written(f) =>
        \A p, q \in 1..Len(outfile[f].pages) :
            p < q => LabelNum(OutLabel(f, p)) < LabelNum(OutLabel(f, q))

\* C3 as amended: the output pages are in the order in which their labels
\* first appear in the source, whatever the labels' numeric order.
C3_FirstSeenOrder ==
    \A f \in Files : Written(f) =>
        \A p, q \in 1..Len(outfile[f].pages) :
            p < q => FirstOcc(Labels(f), OutLabel(f, p)) < FirstOcc(Labels(f), OutLabel(f, q))

\* An output whose first-seen order is not the ascending order.
C3_Witness ==
    \E f \in Files :
        /\ Written(f)
        /\ \E p, q \in 1..Len(outfile[f].pages) :
              p < q /\ LabelNum(OutLabel(f, p)) > LabelNum(OutLabel(f, q))

\* The labels of f's source pages are pairwise distinct.
DistinctLabels(f) == Cardinality(Range(Labels(f))) = Len(Labels(f))

\* C4: when the labels of the source pages are pairwise distinct, the output
\* pages are the source pages in their original order.
C4_DistinctKeepsOrder ==
    \A f \in Files : (Written(f) /\ DistinctLabels(f)) =>
        outfile[f].pages = [p \in 1..Len(src[f].doc) |-> p - 1]

\* An output written from pairwise distinct labels that start out of
\* numeric order (labels 2, 1, ...).
C4_Witness ==
    \E f \in Files :
        /\ Written(f)
        /\ DistinctLabels(f)
        /\ Len(Labels(f)) >= 2
        /\ LabelNum(Labels(f)[1]) > LabelNum(Labels(f)[2])

\* C5: a batch of zero eligible files ends without an error.
C5_EmptyBatchNoError ==
    files_num = 0 => (mainPc # "raised" /\ stderr = {})

\* C6: a source of 0 pages gives an output of 0 pages and its task raises
\* nothing, the completion line included.
C6_EmptyDocNoError ==
    \A f \in Files :
        (src[f].readable /\ src[f].doc = <<>> /\ dst_writable[f]) =>
            /\ exc[f] = "none"
            /\ TaskEnded(f) => (Written(f) /\ outfile[f].pages = <<>>)

\* C7: a page whose label cannot be extracted does not abort its file: the
\* task of a readable, writable source goes on to write the output.
C7_ExtractionFailureNotFatal ==
    \A f \in Files :
        (src[f].readable /\ dst_writable[f] /\ Len(src[f].doc) > 0 /\ TaskEnded(f)) =>
            (exc[f] # "IndexError" /\ Written(f))

\* Nothing in f's source or destination makes its task fail.
NonFailing(f) ==
    /\ src[f].readable
    /\ dst_writable[f]
    /\ Len(src[f].doc) > 0
    /\ \A p \in 1..Len(src[f].doc) : get_real_page_num(src[f].doc[p]).ok

\* C8: when the batch ends, every file that does not fail by itself has its
\* output written and its completion line logged, whatever the other files'
\* tasks did.
C8_FailureIsolation ==
    MainEnded => \A f \in Files : NonFailing(f) => (Written(f) /\ pc[f] = "returned")

\* A batch that ended with a failed file and a completed sibling.
C8_Witness ==
    /\ MainEnded
    /\ \E f, g \in Files :
          /\ exc[f] # "none"
          /\ NonFailing(g) /\ Written(g) /\ pc[g] = "returned"

\* C9: when the batch ends, the coordinator has reported the failure of
\* every file that failed.
C9_AllFailuresReported ==
    (MainEnded /\ files_num > 0) =>
        {e.file : e \in stderr} = {f \in Files : exc[f] # "none"}

\* C10: when the batch ends, the line of a failed file shows a failure
\* marker: not a spinner frame, not the completion line, not the blank line.
C10_FailureMarker ==
    MainEnded => \A f \in Files :
        exc[f] # "none" => term.rows[f].kind \notin {"spinner", "done", "blank"}

\* The last message of the completed log calls of f.
LastLogged(f) == logged[f][Len(logged[f])]

\* C11: a step that completes a log call of f replaces row args[f].line of
\* the block, a row of 0..num-1, with the call's message, leaves every other
\* row as it was, clears or prints on no row outside the block, and leaves
\* the cursor on the row it was on before the call.
C11_LogReplacesOneLine ==
    [][\A f \in Files : logged'[f] # logged[f] =>
          /\ args[f].line \in 0..(files_num - 1)
          /\ term'.rows = [term.rows EXCEPT ![args[f].line] = logged'[f][Len(logged'[f])]]
          /\ term'.cur = term.cur
          /\ term'.stray = term.stray]_vars

\* A log call has replaced an earlier message on one row while another row of
\* the block already held a message, which is still there.
C11_Witness ==
    \E f, g \in Files :
        /\ f # g
        /\ Len(logged[f]) >= 2
        /\ logged[g] # <<>>
        /\ term.rows[args[f].line] = LastLogged(f)
        /\ term.rows[args[g].line] = LastLogged(g)

\* No log call is under way.
NoLogUnderWay == \A f \in Files : lp[f] = 1

\* C12: the output of a log call reaches the terminal with none of another
\* call's output in between: whenever no call is under way, whatever the
\* workers' calls' order was, every row of the block shows the last message
\* its owner logged (or is still blank), nothing was cleared or printed off
\* the block, and the cursor is back on its base row.
C12_LogCallsNotInterleaved ==
    (pool_alive /\ NoLogUnderWay) =>
        /\ \A f \in Files :
              term.rows[args[f].line] = IF logged[f] = <<>> THEN Blank ELSE LastLogged(f)
        /\ ~term.stray
        /\ term.cur = files_num

\* Two workers are in the middle of their files at once, each between two of
\* its log calls, one of them past its second call.
C12_Witness ==
    \E f, g \in Files :
        /\ worker[f] # worker[g]
        /\ pc[f] = "extract" /\ pc[g] = "extract"
        /\ Len(logged[f]) = 2
        /\ logged[g] # <<>>

\* The coordinator process is gone: its interpreter finalized, or a signal
\* ended it.
BatchOver == finalized \/ mainPc = "killed"

\* C13: on every way the batch ends, the cursor, hidden when the Logger was
\* constructed, is visible again.
C13_CursorRestoredAtEveryEnd ==
    BatchOver => ~term.hidden

\* C14 as claimed: the pool has exactly files_num workers and each file is
\* handled by its own worker: no two files are taken by the same worker.
C14_OwnWorkerEach ==
    /\ pool_alive => Cardinality(Workers) = files_num
    /\ \A f, g \in Files :
          (f # g /\ worker[f] # -1 /\ worker[g] # -1) => worker[f] # worker[g]

\* C14 as amended: the pool has exactly files_num workers for files_num
\* one-file tasks, so no queued file waits for want of a worker: while a file
\* is queued, some worker of the pool is idle.  (Which worker takes it is
\* open: it may be one that has finished another file.)
C14_NoFileWaitsForWorker ==
    pool_alive =>
        /\ Cardinality(Workers) = files_num
        /\ \A f \in Files : pc[f] = "queued" => \E w \in Workers : ~Busy(w)

\* A worker that finished one file is running a second one while the pool's
\* other worker has taken nothing.
C14_Witness ==
    /\ pool_alive
    /\ \E f, g \in Files :
          /\ f # g
          /\ worker[f] = worker[g]
          /\ TaskEnded(f)
          /\ pc[g] \in {"log", "extract", "write", "final"}
          /\ \E w \in Workers : ~Used(w)

\* C15: __main__ does not end before every task of the batch has ended, by
\* returning or by raising, also when a task raised early.
C15_WaitsForAllTasks ==
    MainEnded => \A f \in Files : TaskEnded(f)

\* A batch that ended with the failure of a file that could not even be
\* opened, after a sibling, which logged two pages, had failed later still.
C15_Witness ==
    /\ mainPc = "raised"
    /\ \E f, g \in Files :
          /\ f # g
          /\ ~src[f].readable
          /\ stderr = {[file |-> f, exc |-> "OpenError"]}
          /\ exc[g] = "IndexError"
          /\ Len(logged[g]) >= 2

\* C16: the reorder step run again on its own output, each output page with
\* the label it carries, keeps every page in its place.  (The output is what
\* the reorder step gives for the source's labels.)
C16_ReorderIdempotent ==
    \A f \in Files : Written(f) =>
        LET out == outfile[f].pages
            outLabels == [k \in 1..Len(out) |-> OutLabel(f, k)]
        IN  /\ out = Reorder(Labels(f))
            /\ Reorder(outLabels) = [k \in 1..Len(out) |-> k - 1]

\* An output of several pages that is shorter than its source and not a
\* prefix of it: duplicates were dropped and a page was replaced.
C16_Witness ==
    \E f \in Files :
        /\ Written(f)
        /\ Len(outfile[f].pages) >= 2
        /\ Len(outfile[f].pages) < Len(src[f].doc)
        /\ \E k \in 1..Len(outfile[f].pages) : outfile[f].pages[k] # k - 1

\* The place of file name n in the list of the batch's names sorted by name,
\* counted from 0.
SortedPosition(n) == Cardinality({k \in 1..files_num : listing[k] < n})

\* C17: once dispatched, the task of each file has the line that is the
\* file's place in the name-sorted list; the lines are in 0..files_num-1 and
\* pairwise distinct, the args of a task never change, and a row of the
\* block only ever shows messages about the file whose place it is.
C17_LineIsSortedPosition ==
    /\ [](\A f \in Files : args[f] # NoArgs =>
             /\ args[f].line = SortedPosition(args[f].file_name)
             /\ args[f].line \in 0..(files_num - 1)
             /\ \A g \in Files : (g # f /\ args[g] # NoArgs) =>
                    (args[g].line # args[f].line /\ args[g].file_name # args[f].file_name)
             /\ \A r \in DOMAIN term.rows :
                    term.rows[r] # Blank => SortedPosition(term.rows[r].file) = r)
    /\ [][\A f \in Files : args[f] # NoArgs => args'[f] = args[f]]_vars

\* os.listdir gave the names out of order, and both rows of the block show a
\* message.
C17_Witness ==
    /\ files_num = 2
    /\ listing[1] > listing[2]
    /\ \A r \in DOMAIN term.rows : term.rows[r] # Blank

\* The messages a successful task of a file named name logs for a source of
\* n pages that come out as new pages: one spinner line per page, counting
\* 1/n .. n/n through the cycle of glyphs, then the completion line.
ExpectedLog(name, n, new) ==
    [k \in 1..(n + 1) |->
        IF k <= n
        THEN [kind |-> "spinner", file |-> name, glyph |-> (k - 1) % SpinnerLen,
              a |-> k, b |-> n, pct |-> 0]
        ELSE [kind |-> "done", file |-> name, glyph |-> SpinnerLen, a |-> n, b |-> new,
              pct |-> ((n - new) * 20000 + n) \div (2 * n)]]

\* C18: a task that returned, for a source of total >= 1 pages, has logged
\* exactly total spinner lines with the counters 1/total .. total/total in
\* this order and then one completion line, which its row still shows; and
\* whenever a completion line has been logged, the output file is written
\* and the line is the last message of its task.
C18_LogSequence ==
    \A f \in Files :
        /\ (pc[f] = "returned" /\ Len(src[f].doc) >= 1) =>
              /\ logged[f] = ExpectedLog(args[f].file_name, Len(src[f].doc),
                                         Len(outfile[f].pages))
              /\ term.rows[args[f].line] = LastLogged(f)
        /\ \A k \in 1..Len(logged[f]) :
              logged[f][k].kind = "done" => (Written(f) /\ k = Len(logged[f]))

\* A task has returned for a source of three pages or more that came out
\* shorter.
C18_Witness ==
    \E f \in Files :
        /\ pc[f] = "returned"
        /\ Len(src[f].doc) >= 3
        /\ Len(outfile[f].pages) < Len(src[f].doc)
        /\ Len(logged[f]) = Len(src[f].doc) + 1

\* The output path of f is as it was before the batch: no file, or the file
\* an earlier run left.
OutputUntouched(f) == outfile[f] \in {Absent, Existing}

\* C19: the output file of f is opened only once the labels of all pages of
\* its source have been extracted: until then, and for good when the task
\* fails to open its source or to extract a label, the output path is
\* as it was before the batch (no file created, none overwritten or
\* truncated).
C19_OutputOnlyAfterExtraction ==
    \A f \in Files :
        /\ ~OutputUntouched(f) => (src[f].readable /\ i[f] = Len(src[f].doc))
        /\ exc[f] \in {"OpenError", "IndexError"} => OutputUntouched(f)

\* The extraction failed on a later page of a source whose output path
\* holds the file of an earlier run.
C19_Witness ==
    \E f \in Files :
        /\ exc[f] = "IndexError"
        /\ i[f] >= 1
        /\ outfile[f] = Existing

\* C20: for every line handed to a task, log moves the cursor up by
\* files_num - line rows, between 1 and files_num, and down by as many; and
\* no log call has cleared or printed above the first row of the block or on
\* or below the cursor's base row.
C20_LogStaysInBlock ==
    /\ ~term.stray
    /\ \A f \in Files : args[f] # NoArgs =>
          LET ops == LoggerLog(files_num, args[f].line, Blank)
              up == files_num - args[f].line
          IN  /\ up \in 1..files_num
              /\ ops[1] = CursorUp(up)
              /\ ops[Len(ops)] = CursorDown(up)

\* In a batch of several files the first and the last row of the block have
\* both been written, and the cursor is on its base row.
C20_Witness ==
    /\ files_num >= 2
    /\ term.rows[0] # Blank
    /\ term.rows[files_num - 1] # Blank
    /\ term.cur = files_num

====
